---------------------------- MODULE Spec2Model ----------------------------
(***************************************************************************)
(* Matchup analysis and scoring engine of ncaa_betting: composite scoring, *)
(* tier and stake engine (analysis/scoring.py), dimension dispatcher and   *)
(* pick assembler (analysis/pipeline.py), backtest (analysis/backtest.py). *)
(*                                                                         *)
(* Numbers are fixed point.  Edges and confidences are in tenths           *)
(* (confidence 10 is 1.0), weights in hundredths (14 is 0.14), composite   *)
(* scores in thousandths (7000 is 7.0), probabilities and stake fractions  *)
(* in ten-thousandths (2500 is 0.25).  A quotient is truncated to the      *)
(* resolution of its unit; every threshold the code compares against is a  *)
(* whole number of units, so truncation never changes a comparison with a  *)
(* threshold.                                                              *)
(***************************************************************************)
EXTENDS Integers, Sequences, FiniteSets, TLC

VARIABLES
    args,           \* arguments of the pure function under evaluation
    ret,            \* its return value, NoRet before the call
    game_ctx,       \* the MatchupContext under analysis
    dim_funcs,      \* AnalysisPipeline._dim_funcs: cached dimension callables
    last,           \* the latest dispatcher call and what it returned
    prev,           \* the dispatcher call before it
    matchup,        \* the latest analyze_matchup call and what it returned
    vegas_lines,    \* rows of the vegas_lines table, in rowid order
    pick_history,   \* rows of the pick_history table, in rowid order
    utc_today,      \* the date datetime.utcnow() reports
    slate,          \* the latest analyze_slate call and what it returned
    recorded        \* the latest record_result call and what it did

funVars == <<args, ret>>

pipeVars == <<game_ctx, dim_funcs, last, prev, matchup>>

slateVars == <<vegas_lines, pick_history, utc_today, slate, recorded>>

vars ==
    <<args, ret, game_ctx, dim_funcs, last, prev, matchup,
      vegas_lines, pick_history, utc_today, slate, recorded>>

-----------------------------------------------------------------------------
(* Bounds of the model.                                                    *)

MaxResults == 2     \* longest list of dimension results passed to scoring
MaxCount == 10      \* largest win / loss / push count passed to the ROI

-----------------------------------------------------------------------------
(* Generic helpers.                                                        *)

Abs(x) == IF x < 0 THEN -x ELSE x

Max2(a, b) == IF a >= b THEN a ELSE b

Min2(a, b) == IF a <= b THEN a ELSE b

\* A returned value, and a raised exception.
Return(v) == [exc |-> "none", value |-> v]

Raise(e) == [exc |-> e, value |-> 0]

NoRet == [exc |-> "not called", value |-> 0]

\* Python's true division: raises on a zero divisor.  `scale` is the number
\* of result units per (dividend unit / divisor unit).
Divide(num, den, scale) ==
    IF den = 0 THEN Raise("ZeroDivisionError")
    ELSE LET q == (Abs(num) * scale) \div Abs(den)
         IN Return(IF (num < 0) = (den < 0) \/ num = 0 THEN q ELSE -q)

\* All sequences over S of length at most n.
SeqsUpTo(S, n) == UNION {[1..k -> S] : k \in 0..n}

-----------------------------------------------------------------------------
(* analysis/pipeline.py: the dimension registry and the weight table.      *)

DIMENSION_WEIGHTS ==
    [pace_adjusted |-> 14, four_factors |-> 14, opponent_quality |-> 10,
     home_away |-> 8, recency |-> 9, shooting_zones |-> 7,
     turnover_chain |-> 7, ft_rate |-> 5, ats_correlation |-> 8,
     variance |-> 6, rank_asymmetry |-> 6, trap_detect |-> 6]

\* Iteration order of the DIMENSION_WEIGHTS dict (insertion order).
DimensionOrder ==
    <<"pace_adjusted", "four_factors", "opponent_quality", "home_away",
      "recency", "shooting_zones", "turnover_chain", "ft_rate",
      "ats_correlation", "variance", "rank_asymmetry", "trap_detect">>

\* Dimension name -> the analyze callable of its module.  A callable is
\* identified by the name of the dimension whose module defines it.
_DIMENSION_REGISTRY ==
    [n \in {DimensionOrder[i] : i \in 1..Len(DimensionOrder)} |-> n]

-----------------------------------------------------------------------------
(* analysis/scoring.py                                                     *)

_COMPOSITE_FLOOR == 0

_COMPOSITE_CEILING == 10000

_RAW_TO_SCALE_FACTOR == 10

_clip(value, lo, hi) == Max2(lo, Min2(hi, value))

\* getattr(dim, edge_attr, 0.0)
EdgeOf(dim, edge_attr) ==
    IF edge_attr = "spread_edge" THEN dim.spread_edge ELSE dim.total_edge

\* weights.get(name, 0.0)
WeightGet(weights, name) ==
    IF name \in DOMAIN weights THEN weights[name] ELSE 0

RECURSIVE WeightedSum(_, _, _, _)
WeightedSum(results, weights, edge_attr, i) ==
    IF i > Len(results) THEN 0
    ELSE EdgeOf(results[i], edge_attr) * results[i].confidence
             * WeightGet(weights, results[i].name)
         + WeightedSum(results, weights, edge_attr, i + 1)

RECURSIVE TotalWeight(_, _, _)
TotalWeight(results, weights, i) ==
    IF i > Len(results) THEN 0
    ELSE WeightGet(weights, results[i].name)
         + TotalWeight(results, weights, i + 1)

\* Mutant of _weighted_edge: the zero-weight guard and the clip are missing.
WeightedEdgeUnguarded(results, weights, edge_attr) ==
    IF Len(results) = 0 THEN Return(0)
    ELSE LET weighted_sum == WeightedSum(results, weights, edge_attr, 1)
             total_weight == TotalWeight(results, weights, 1)
             normalised == Divide(weighted_sum, total_weight,
                                  10 * _RAW_TO_SCALE_FACTOR)
         IN IF normalised.exc # "none" THEN normalised
            ELSE Return(Abs(normalised.value))

\* weighted_sum is in 1e-4 units and total_weight in 1e-2 units, so the
\* quotient times the scale factor is (10 * factor) thousandths per unit.
_weighted_edge(results, weights, edge_attr) ==
    IF Len(results) = 0 THEN Return(0)
    ELSE LET weighted_sum == WeightedSum(results, weights, edge_attr, 1)
             total_weight == TotalWeight(results, weights, 1)
         IN IF total_weight = 0 THEN Return(0)
            ELSE LET normalised == Divide(weighted_sum, total_weight,
                                          10 * _RAW_TO_SCALE_FACTOR)
                 IN IF normalised.exc # "none" THEN normalised
                    ELSE Return(_clip(Abs(normalised.value),
                                      _COMPOSITE_FLOOR, _COMPOSITE_CEILING))

compute_spread_composite(results, weights) ==
    _weighted_edge(results, weights, "spread_edge")

compute_total_composite(results, weights) ==
    _weighted_edge(results, weights, "total_edge")

LOCK_MIN == 7000

STRONG_MIN == 4500

LEAN_MIN == 2000

\* Mutant of assign_tier: the LOCK bound is exclusive.
AssignTierExclusive(composite) ==
    IF composite > LOCK_MIN THEN "LOCK"
    ELSE IF composite >= STRONG_MIN THEN "STRONG"
    ELSE IF composite >= LEAN_MIN THEN "LEAN"
    ELSE "SKIP"

assign_tier(composite) ==
    IF composite >= LOCK_MIN THEN "LOCK"
    ELSE IF composite >= STRONG_MIN THEN "STRONG"
    ELSE IF composite >= LEAN_MIN THEN "LEAN"
    ELSE "SKIP"

\* Order of the tiers, SKIP < LEAN < STRONG < LOCK.
TierRank(tier) ==
    CASE tier = "SKIP" -> 0
      [] tier = "LEAN" -> 1
      [] tier = "STRONG" -> 2
      [] tier = "LOCK" -> 3


midpoint == 5000

steepness == 6

Z_LIMIT == 5000000

max_fraction == 2500

\* 1.0 / (1.0 + math.exp(z)) in ten-thousandths, tabulated for
\* z = -0.6 * (c - 5.0) at the whole composites c = -2 .. 12.
LogisticTable ==
    <<148, 266, 474, 832, 1419, 2315, 3543, 5000,
      6457, 7685, 8581, 9168, 9526, 9734, 9852>>

\* z is in 1e-4 units.  At the clip limits math.exp(z) is 1.4e217 and
\* 7.1e-218: the quotient is 7.1e-218 (0 at this resolution) and exactly 1.0.
Logistic(z) ==
    IF z >= Z_LIMIT THEN 0
    ELSE IF z <= -Z_LIMIT THEN 10000
    ELSE LogisticTable[((-z) \div (steepness * 1000)) + 8]

\* Mutant of compute_kelly_fraction: the quarter-Kelly cap is missing.
KellyUncapped(composite, implied_prob) ==
    LET z == _clip(-steepness * (composite - midpoint), -Z_LIMIT, Z_LIMIT)
        estimated_prob == Logistic(z)
        edge == estimated_prob - implied_prob
    IN IF implied_prob >= 10000 THEN Return(0)
       ELSE IF edge <= 0 THEN Return(0)
       ELSE Divide(edge, 10000 - implied_prob, 10000)

compute_kelly_fraction(composite, implied_prob) ==
    LET z == _clip(-steepness * (composite - midpoint), -Z_LIMIT, Z_LIMIT)
        estimated_prob == Logistic(z)
        edge == estimated_prob - implied_prob
    IN IF implied_prob >= 10000 THEN Return(0)
       ELSE IF edge <= 0 THEN Return(0)
       ELSE LET kelly == Divide(edge, 10000 - implied_prob, 10000)
            IN IF kelly.exc # "none" THEN kelly
               ELSE Return(_clip(kelly.value, 0, max_fraction))

\* The estimated probability compute_kelly_fraction works with.
EstimatedProb(composite) ==
    Logistic(_clip(-steepness * (composite - midpoint), -Z_LIMIT, Z_LIMIT))

-----------------------------------------------------------------------------
(* analysis/backtest.py                                                    *)

_JUICE_RISK == 110

_JUICE_WIN == 100

\* An exact quotient num / den of two floats holding whole numbers.
Frac(num, den) == [num |-> num, den |-> den]

FracEq(a, b) == a.num * b.den = b.num * a.den

\* Mutant of _compute_roi: pushes count as decided bets.
ComputeRoiWithPushes(wins, losses, pushes) ==
    LET decided == wins + losses + pushes
    IN IF decided = 0 THEN Frac(0, 1)
       ELSE Frac((wins * _JUICE_WIN) - (losses * _JUICE_RISK),
                 decided * _JUICE_RISK)

_compute_roi(wins, losses, pushes) ==
    LET decided == wins + losses
    IN IF decided = 0 THEN Frac(0, 1)
       ELSE LET profit == (wins * _JUICE_WIN) - (losses * _JUICE_RISK)
                total_risked == decided * _JUICE_RISK
            IN Frac(profit, total_risked)

\* Mutant of _tier_from_composite: the LEAN bound is exclusive.
TierFromCompositeExclusive(composite) ==
    IF composite >= 7000 THEN "LOCK"
    ELSE IF composite >= 4500 THEN "STRONG"
    ELSE IF composite > 2000 THEN "LEAN"
    ELSE "SKIP"

_tier_from_composite(composite) ==
    IF composite >= 7000 THEN "LOCK"
    ELSE IF composite >= 4500 THEN "STRONG"
    ELSE IF composite >= 2000 THEN "LEAN"
    ELSE "SKIP"

\* _compute_accuracy: wins / (wins + losses) as an exact fraction.
_compute_accuracy(wins, losses) ==
    IF wins + losses = 0 THEN Frac(0, 1)
    ELSE Frac(wins, wins + losses)

\* bin_edges, bin_labels and bin_midpoints of _build_calibration.
bin_edges == <<0, 2000, 4500, 7000, 8500, 10010>>

bin_labels == <<"0-2", "2-4.5", "4.5-7", "7-8.5", "8.5-10">>

bin_midpoints == <<1000, 3250, 5750, 7750, 9250>>

\* Mutant of CutBin: the last band ends at 10.0, which it excludes.
CutBinNoCeiling(score) ==
    LET ends == [bin_edges EXCEPT ![6] = 10000]
        hit == {k \in 1..Len(bin_labels) :
                   ends[k] <= score /\ score < ends[k + 1]}
    IN IF hit = {} THEN "NaN" ELSE bin_labels[CHOOSE k \in hit : TRUE]

\* pd.cut(..., right=False): the band [edge k, edge k+1) holding the score,
\* NaN for a score in no band.
CutBin(score) ==
    LET hit == {k \in 1..Len(bin_labels) :
                   bin_edges[k] <= score /\ score < bin_edges[k + 1]}
    IN IF hit = {} THEN "NaN" ELSE bin_labels[CHOOSE k \in hit : TRUE]

\* The rows of the calibration table for the bands from band k on.
RECURSIVE CalibrationRows(_, _)
CalibrationRows(decided, k) ==
    IF k > Len(bin_labels) THEN <<>>
    ELSE LET bin_data == SelectSeq(decided, LAMBDA r :
                                       CutBin(r.composite_score)
                                           = bin_labels[k])
             wins == Len(SelectSeq(bin_data, LAMBDA r : r.result = "W"))
         IN (IF bin_data = <<>> THEN <<>>
             ELSE <<[bin |-> bin_labels[k],
                     predicted |-> bin_midpoints[k],
                     actual |-> Frac(wins, Len(bin_data)),
                     count |-> Len(bin_data)]>>)
            \o CalibrationRows(decided, k + 1)

_build_calibration(df) ==
    LET decided == SelectSeq(df, LAMBDA r : r.result \in {"W", "L"})
    IN IF decided = <<>> THEN <<>> ELSE CalibrationRows(decided, 1)

-----------------------------------------------------------------------------
(* analysis/pipeline.py: contexts and dimension results.                   *)
(*                                                                         *)
(* A DimensionResult is [name, spread_edge, total_edge, confidence,        *)
(* narrative].  The analyze functions of the twelve dimension modules are  *)
(* pure functions of the MatchupContext, so a context is modelled by what  *)
(* each of them computes on it: ctx.source[f] is the outcome of calling    *)
(* the callable f on ctx, either an exception or a DimensionResult.  The   *)
(* market line of a context is empty, numeric, or a text value that        *)
(* float() rejects.                                                        *)

DimensionResult(name, spread_edge, total_edge, confidence, narrative) ==
    [name |-> name, spread_edge |-> spread_edge, total_edge |-> total_edge,
     confidence |-> confidence, narrative |-> narrative]

\* The neutral result of the dispatcher's except branch.
NeutralResult(dim_name) ==
    DimensionResult(dim_name, 0, 0, 0,
                    "[" \o dim_name \o "] dimension unavailable.")

\* Outcomes of a dimension callable.
SourceRaises == [raises |-> TRUE, result |-> DimensionResult("", 0, 0, 0, "")]

SourceReturns(result) == [raises |-> FALSE, result |-> result]

\* What every dimension module returns when its inputs are empty.
Insufficient(name) ==
    SourceReturns(DimensionResult(name, 0, 0, 0, "Insufficient data."))

\* Mutant of _get_dimension_func: a cache hit returns whatever callable was
\* cached first, not the one cached under dim_name.
GetDimensionFuncAnyCached(dim_funcs_in, dim_name) ==
    IF dim_name \in DOMAIN dim_funcs_in
    THEN [exc |-> "none",
          func |-> dim_funcs_in[CHOOSE n \in DOMAIN dim_funcs_in : TRUE],
          dim_funcs |-> dim_funcs_in]
    ELSE IF dim_name \notin DOMAIN _DIMENSION_REGISTRY
    THEN [exc |-> "KeyError", func |-> "", dim_funcs |-> dim_funcs_in]
    ELSE LET func == _DIMENSION_REGISTRY[dim_name]
         IN [exc |-> "none", func |-> func,
             dim_funcs |-> (dim_name :> func) @@ dim_funcs_in]

_get_dimension_func(dim_funcs_in, dim_name) ==
    IF dim_name \in DOMAIN dim_funcs_in
    THEN [exc |-> "none", func |-> dim_funcs_in[dim_name],
          dim_funcs |-> dim_funcs_in]
    ELSE IF dim_name \notin DOMAIN _DIMENSION_REGISTRY
    THEN [exc |-> "KeyError", func |-> "", dim_funcs |-> dim_funcs_in]
    ELSE LET func == _DIMENSION_REGISTRY[dim_name]
         IN [exc |-> "none", func |-> func,
             dim_funcs |-> (dim_name :> func) @@ dim_funcs_in]

\* func(ctx)
CallDimension(func, ctx) == ctx.source[func]

\* Mutant of _run_dimension: the confidence is returned as the source gave it.
RunDimensionNoClamp(dim_funcs_in, dim_name, ctx) ==
    LET got == _get_dimension_func(dim_funcs_in, dim_name)
        out == CallDimension(got.func, ctx)
    IN IF got.exc # "none" \/ out.raises
       THEN [exc |-> "none", result |-> NeutralResult(dim_name),
             dim_funcs |-> got.dim_funcs, ctx |-> ctx,
             logged |-> IF got.exc # "none" THEN got.exc ELSE "Exception"]
       ELSE [exc |-> "none", result |-> out.result,
             dim_funcs |-> got.dim_funcs, ctx |-> ctx, logged |-> "none"]

\* Mutant of _run_dimension: the exception of the signal source propagates.
RunDimensionNoCatch(dim_funcs_in, dim_name, ctx) ==
    LET got == _get_dimension_func(dim_funcs_in, dim_name)
        out == CallDimension(got.func, ctx)
    IN IF got.exc # "none"
       THEN [exc |-> "none", result |-> NeutralResult(dim_name),
             dim_funcs |-> got.dim_funcs, ctx |-> ctx, logged |-> got.exc]
       ELSE IF out.raises
       THEN [exc |-> "Exception", result |-> NeutralResult(dim_name),
             dim_funcs |-> got.dim_funcs, ctx |-> ctx, logged |-> "none"]
       ELSE [exc |-> "none",
             result |-> [out.result EXCEPT
                            !.confidence = Max2(0, Min2(10, @))],
             dim_funcs |-> got.dim_funcs, ctx |-> ctx, logged |-> "none"]

\* Returns what the call returns or raises (exc), the cache and the context
\* after the call, and the exception the except branch logged.
_run_dimension(dim_funcs_in, dim_name, ctx) ==
    LET got == _get_dimension_func(dim_funcs_in, dim_name)
        out == CallDimension(got.func, ctx)
    IN IF got.exc # "none"
       THEN [exc |-> "none", result |-> NeutralResult(dim_name),
             dim_funcs |-> got.dim_funcs, ctx |-> ctx, logged |-> got.exc]
       ELSE IF out.raises
       THEN [exc |-> "none", result |-> NeutralResult(dim_name),
             dim_funcs |-> got.dim_funcs, ctx |-> ctx,
             logged |-> "Exception"]
       ELSE [exc |-> "none",
             result |-> [out.result EXCEPT
                            !.confidence = Max2(0, Min2(10, @))],
             dim_funcs |-> got.dim_funcs, ctx |-> ctx, logged |-> "none"]

\* Runs the dimensions DimensionOrder[i..] through the dispatcher, as the
\* loop of analyze_matchup does; an exception of the dispatcher ends it.
RECURSIVE RunDimensions(_, _, _)
RunDimensions(dim_funcs_in, ctx, i) ==
    IF i > Len(DimensionOrder)
    THEN [exc |-> "none", results |-> <<>>, dim_funcs |-> dim_funcs_in,
          ctx |-> ctx]
    ELSE LET r == _run_dimension(dim_funcs_in, DimensionOrder[i], ctx)
         IN IF r.exc # "none"
            THEN [exc |-> r.exc, results |-> <<>>, dim_funcs |-> r.dim_funcs,
                  ctx |-> r.ctx]
            ELSE LET rest == RunDimensions(r.dim_funcs, r.ctx, i + 1)
                 IN [rest EXCEPT !.results = <<r.result>> \o @]

RECURSIVE DirectionSum(_, _, _)
DirectionSum(results, edge_attr, i) ==
    IF i > Len(results) THEN 0
    ELSE EdgeOf(results[i], edge_attr) * results[i].confidence
         + DirectionSum(results, edge_attr, i + 1)

_aggregate_direction(results, edge_attr) == DirectionSum(results, edge_attr, 1)

\* sorted(seq, key=..., reverse=True) on a sequence of [key, item] records:
\* descending by key, equal keys keeping their original order.
SortedDesc(keyed) ==
    LET n == Len(keyed)
        pos == [i \in 1..n |->
                   1 + Cardinality({j \in 1..n : keyed[j].key > keyed[i].key})
                     + Cardinality({j \in 1..(i - 1) :
                                        keyed[j].key = keyed[i].key})]
    IN [p \in 1..n |-> keyed[CHOOSE i \in 1..n : pos[i] = p].item]

\* Mutant of KeyFactors: the results are not sorted, the narratives are
\* those of the first three dimensions evaluated.
KeyFactorsFirstThree(results) ==
    LET top == SubSeq(results, 1, Min2(3, Len(results)))
        narratives == [i \in 1..Len(top) |-> top[i].narrative]
    IN SelectSeq(narratives, LAMBDA x : x # "")

\* key_factors: the narratives of the first three results by
\* abs(spread_edge) * confidence, empty narratives dropped.
KeyFactors(results) ==
    LET keyed == [i \in 1..Len(results) |->
                     [key |-> Abs(results[i].spread_edge)
                                  * results[i].confidence,
                      item |-> results[i]]]
        sorted_results == SortedDesc(keyed)
        top == SubSeq(sorted_results, 1, Min2(3, Len(sorted_results)))
        narratives == [i \in 1..Len(top) |-> top[i].narrative]
    IN SelectSeq(narratives, LAMBDA x : x # "")

NoCard ==
    [away_team |-> "", home_team |-> "", game_date |-> "",
     spread |-> 0, total |-> 0,
     spread_pick |-> "", spread_confidence |-> "", spread_composite |-> 0,
     total_pick |-> "", total_confidence |-> "", total_composite |-> 0,
     dimension_results |-> <<>>, key_factors |-> <<>>]

\* Mutant of PickSides: a tie goes to the home team and UNDER.
PickSidesTieHome(ctx, spread_direction, total_direction) ==
    [spread |-> IF spread_direction > 0 THEN ctx.away_team
                ELSE ctx.home_team,
     total |-> IF total_direction > 0 THEN "OVER" ELSE "UNDER"]

\* spread_pick_side and total_pick_side of analyze_matchup.
PickSides(ctx, spread_direction, total_direction) ==
    [spread |-> IF spread_direction >= 0 THEN ctx.away_team
                ELSE ctx.home_team,
     total |-> IF total_direction >= 0 THEN "OVER" ELSE "UNDER"]

\* Returns the PickCard (or the exception raised), and the cache after the
\* call.  The projected scores, value edges, headline and trap warnings of
\* the card are functions of the context alone and are left out.
analyze_matchup(dim_funcs_in, ctx) ==
    LET run == RunDimensions(dim_funcs_in, ctx, 1)
        results == run.results
        spread_composite ==
            compute_spread_composite(results, DIMENSION_WEIGHTS)
        total_composite ==
            compute_total_composite(results, DIMENSION_WEIGHTS)
        spread_direction == _aggregate_direction(results, "spread_edge")
        total_direction == _aggregate_direction(results, "total_edge")
        spread_tier == assign_tier(spread_composite.value)
        total_tier == assign_tier(total_composite.value)
        sides == PickSides(run.ctx, spread_direction, total_direction)
        vegas_spread == IF run.ctx.line.kind = "empty" THEN 0
                        ELSE run.ctx.line.spread
        vegas_total == IF run.ctx.line.kind = "empty" THEN 1400
                       ELSE run.ctx.line.total
    IN IF run.exc # "none"
       THEN [exc |-> run.exc, card |-> NoCard, dim_funcs |-> run.dim_funcs]
       ELSE IF spread_composite.exc # "none"
       THEN [exc |-> spread_composite.exc, card |-> NoCard,
             dim_funcs |-> run.dim_funcs]
       ELSE IF total_composite.exc # "none"
       THEN [exc |-> total_composite.exc, card |-> NoCard,
             dim_funcs |-> run.dim_funcs]
       ELSE IF run.ctx.line.kind = "text"
       THEN \* float(vegas_spread) rejects the value
            [exc |-> "ValueError", card |-> NoCard,
             dim_funcs |-> run.dim_funcs]
       ELSE [exc |-> "none",
             card |-> [away_team |-> run.ctx.away_team,
                       home_team |-> run.ctx.home_team,
                       game_date |-> run.ctx.game_date,
                       spread |-> vegas_spread,
                       total |-> vegas_total,
                       spread_pick |-> sides.spread,
                       spread_confidence |-> spread_tier,
                       spread_composite |-> spread_composite.value,
                       total_pick |-> sides.total,
                       total_confidence |-> total_tier,
                       total_composite |-> total_composite.value,
                       dimension_results |-> results,
                       key_factors |-> KeyFactors(results)],
             dim_funcs |-> run.dim_funcs]

-----------------------------------------------------------------------------
(* analysis/pipeline.py: the queries of build_context.                     *)

\* What a query function does: it raises, or returns None, a Series, a
\* DataFrame, a list of rows, one sqlite3.Row, or a value of another type.
QueryRaises == [kind |-> "raises", rows |-> <<>>]

QueryReturns(kind, rows) == [kind |-> kind, rows |-> rows]

\* A pandas container: its type and its rows (a Series holds one row).
Series(rows) == [type |-> "Series", rows |-> rows]

DataFrame(rows) == [type |-> "DataFrame", rows |-> rows]

\* Mutant of _safe_query_series: a failing query leaves None in the field.
SafeQuerySeriesNone(outcome) ==
    CASE outcome.kind \in {"raises", "None"} -> [type |-> "None", rows |-> <<>>]
      [] outcome.kind = "Series" -> Series(outcome.rows)
      [] outcome.kind = "DataFrame" ->
            IF outcome.rows = <<>> THEN Series(<<>>)
            ELSE Series(<<outcome.rows[1]>>)
      [] outcome.kind = "Row" -> Series(outcome.rows)
      [] OTHER -> Series(<<>>)

\* pipeline._safe_query_series; pd.Series(dict(result)) raises inside the
\* try for a result that is no mapping.
_safe_query_series(outcome) ==
    CASE outcome.kind = "raises" -> Series(<<>>)
      [] outcome.kind = "None" -> Series(<<>>)
      [] outcome.kind = "Series" -> Series(outcome.rows)
      [] outcome.kind = "DataFrame" ->
            IF outcome.rows = <<>> THEN Series(<<>>)
            ELSE Series(<<outcome.rows[1]>>)
      [] outcome.kind = "Row" -> Series(outcome.rows)
      [] OTHER -> Series(<<>>)

\* pipeline._safe_query_df
_safe_query_df(outcome) ==
    CASE outcome.kind = "raises" -> DataFrame(<<>>)
      [] outcome.kind = "None" -> DataFrame(<<>>)
      [] outcome.kind = "DataFrame" -> DataFrame(outcome.rows)
      [] outcome.kind = "list" -> DataFrame(outcome.rows)
      [] OTHER -> DataFrame(<<>>)

\* The data fields of MatchupContext: Series fields and DataFrame fields.
SeriesFields ==
    {"away_ratings", "home_ratings", "away_four_factors",
     "home_four_factors", "line"}

FrameFields ==
    {"away_game_logs", "home_game_logs", "away_ats", "home_ats", "away_ou",
     "home_ou", "away_ratings_history", "home_ratings_history"}

\* The data fields build_context fills, each from the outcome of its own
\* query; `queries` maps a field to what its query does.
ContextFields(queries) ==
    [exc |-> "none",
     value |-> [f \in SeriesFields \cup FrameFields |->
                   IF f \in SeriesFields THEN _safe_query_series(queries[f])
                   ELSE _safe_query_df(queries[f])]]

-----------------------------------------------------------------------------
(* Inputs of the pure functions.                                           *)

\* Names carried by the dimension results handed to scoring: two registered
\* dimensions and a name no weight table knows.
ScoringNames == {"pace_adjusted", "ft_rate", "unregistered"}

\* (spread_edge, total_edge) pairs, in tenths: both signs, zero, and
\* magnitudes from below the LEAN bound to far above the ceiling.
ScoringEdges == {<<-300, 300>>, <<0, -25>>, <<25, 0>>}

ScoringResults ==
    {[name |-> n, spread_edge |-> e[1], total_edge |-> e[2],
      confidence |-> c, narrative |-> "analysis"] :
        n \in ScoringNames, e \in ScoringEdges, c \in {0, 8}}

\* The pipeline's table, the empty mapping, weights that cancel, a zero
\* weight, and a negative weight.
ScoringWeights ==
    {DIMENSION_WEIGHTS,
     <<>>,
     [pace_adjusted |-> 14, ft_rate |-> -14],
     [pace_adjusted |-> 0],
     [ft_rate |-> -5]}

CompositeArgs ==
    [op : {"compute_spread_composite", "compute_total_composite"},
     results : SeqsUpTo(ScoringResults, MaxResults),
     weights : ScoringWeights]

\* Composite scores around every tier bound, and outside [0, 10].
TierComposites ==
    {-1000, 0, 1999, 2000, 2001, 4499, 4500, 4501, 6999, 7000, 7001,
     10000, 12000}

TierArgs == [op : {"assign_tier", "_tier_from_composite"},
             composite : TierComposites]

\* Whole composites -2 .. 12 and the two values far outside the scale.
KellyComposites == {c * 1000 : c \in -2..12} \cup {-1000000, 1000000}

\* Implied probabilities: negative, zero, a coin flip, -110 juice, values
\* next to 1.0, 1.0 and above.
ImpliedProbs == {-5000, 0, 2500, 5000, 5238, 9000, 9999, 10000, 12000}

KellyArgs == [op : {"compute_kelly_fraction"},
              composite : KellyComposites,
              implied_prob : ImpliedProbs]

RoiArgs == [op : {"_compute_roi"},
            wins : 0..MaxCount, losses : 0..MaxCount, pushes : 0..MaxCount]

MaxPicks == 2       \* most resolved picks handed to _build_calibration

\* Composite scores at every band edge, just under one, and outside
\* [0, 10] on both sides.
CalibrationScores == {-1, 0, 1999, 2000, 4500, 7000, 8500, 10000, 10010}

CalibrationArgs ==
    [op : {"_build_calibration"},
     df : SeqsUpTo([composite_score : CalibrationScores,
                    result : {"W", "L", "P"}], MaxPicks)]

MaxBroken == 2      \* most queries of one build_context that go wrong

\* Every way a query can end: with rows, empty, with nothing, raising.
QueryOutcomes ==
    {QueryRaises,
     QueryReturns("None", <<>>),
     QueryReturns("Series", <<>>),
     QueryReturns("Series", <<"row 1">>),
     QueryReturns("DataFrame", <<>>),
     QueryReturns("DataFrame", <<"row 1", "row 2">>),
     QueryReturns("list", <<>>),
     QueryReturns("list", <<"row 1", "row 2">>),
     QueryReturns("Row", <<"row 1">>),
     QueryReturns("int", <<>>)}

\* Every query returns a DataFrame with rows, but for at most MaxBroken.
ContextQueries ==
    UNION {{[f \in SeriesFields \cup FrameFields |->
                IF f \in broken THEN outcome[f]
                ELSE QueryReturns("DataFrame", <<"row 1", "row 2">>)] :
              outcome \in [broken -> QueryOutcomes]} :
           broken \in {b \in SUBSET (SeriesFields \cup FrameFields) :
                           Cardinality(b) = MaxBroken}}

ContextArgs == [op : {"build_context"}, queries : ContextQueries]

-----------------------------------------------------------------------------
(* Contexts handed to the dispatcher and to analyze_matchup.               *)

MaxActive == 4      \* most dimensions of a context that find data

EmptyLine == [kind |-> "empty", spread |-> 0, total |-> 0]

NumericLine == [kind |-> "numeric", spread |-> -35, total |-> 1400]

TextLine == [kind |-> "text", spread |-> 0, total |-> 0]

Context(away_team, home_team, game_date, line, source) ==
    [away_team |-> away_team, home_team |-> home_team,
     game_date |-> game_date, season |-> 2025,
     line |-> line, source |-> source]

\* What a dimension computes, before its name is known.
RaisesShape ==
    [raises |-> TRUE, spread_edge |-> 0, total_edge |-> 0, confidence |-> 0,
     narrative |-> FALSE]

Shape(spread_edge, total_edge, confidence, narrative) ==
    [raises |-> FALSE, spread_edge |-> spread_edge, total_edge |-> total_edge,
     confidence |-> confidence, narrative |-> narrative]

Outcome(name, shape) ==
    IF shape.raises THEN SourceRaises
    ELSE SourceReturns(DimensionResult(
             name, shape.spread_edge, shape.total_edge, shape.confidence,
             IF shape.narrative THEN name \o " analysis." ELSE ""))

\* The dispatcher is called with two registered names and an unknown one.
DispatchNames == {"pace_adjusted", "trap_detect", "unregistered"}

\* Confidences below, inside, at the ends of and above [0, 1].
PaceShapes ==
    {RaisesShape, Shape(25, -25, -5, TRUE), Shape(25, -25, 0, TRUE),
     Shape(25, -25, 5, TRUE)}

TrapShapes ==
    {RaisesShape, Shape(-50, 60, 5, TRUE), Shape(-50, 60, 10, TRUE),
     Shape(-50, 60, 15, TRUE)}

DispatchContexts ==
    {Context("Duke", "UNC", "2025-02-14", NumericLine,
             [n \in DOMAIN _DIMENSION_REGISTRY |->
                 IF n = "pace_adjusted" THEN Outcome(n, a)
                 ELSE IF n = "trap_detect" THEN Outcome(n, b)
                 ELSE Insufficient(n)]) :
        a \in PaceShapes, b \in TrapShapes}

\* Dimensions with four different weights (0.14, 0.08, 0.05, 0.06).
ActiveDims == {"pace_adjusted", "home_away", "ft_rate", "trap_detect"}

\* An exception, edges of both signs from a fraction of a point to fifteen
\* points (two of them cancel the total edge of the first), confidences
\* inside and above [0, 1], an empty narrative.
MatchupShapes ==
    {RaisesShape,
     Shape(25, -25, 8, TRUE),
     Shape(-50, 60, 8, TRUE),
     Shape(-50, 25, 8, TRUE),
     Shape(100, 0, 15, FALSE),
     Shape(-150, -100, 10, TRUE),
     Shape(4, 150, 5, TRUE)}

\* Every dimension outside `dims` finds no data; those in it compute f.
SourceWith(dims, f) ==
    [n \in DOMAIN _DIMENSION_REGISTRY |->
        IF n \in dims THEN Outcome(n, f[n]) ELSE Insufficient(n)]

MatchupSources ==
    UNION {{SourceWith(dims, f) : f \in [dims -> MatchupShapes]} :
              dims \in {d \in SUBSET ActiveDims : Cardinality(d) <= MaxActive}}

MatchupContexts ==
    {Context("Duke", "UNC", "2025-02-14", line, source) :
        line \in {EmptyLine, NumericLine, TextLine},
        source \in MatchupSources}

-----------------------------------------------------------------------------
(* The dispatcher and the orchestrator of one pipeline instance, called on *)
(* one context.                                                            *)

MaxAnalyses == 2    \* most analyze_matchup calls on the context

NoContext == Context("", "", "", EmptyLine, <<>>)

NoCall ==
    [called |-> FALSE, dim_name |-> "", from_cache |-> FALSE,
     ctx_before |-> NoContext,
     ret |-> [exc |-> "not called", result |-> NeutralResult(""),
              dim_funcs |-> <<>>, ctx |-> NoContext, logged |-> "none"]]

NoMatchup ==
    [calls |-> 0,
     ret |-> [exc |-> "not called", card |-> NoCard, dim_funcs |-> <<>>]]

NoSlate ==
    [calls |-> 0, game_date |-> "", analysis_date |-> "", fault |-> "none",
     exc |-> "not called", cards |-> <<>>, log |-> <<>>]

NoRecord ==
    [calls |-> 0, game_date |-> "", away_team |-> "", home_team |-> "",
     pick_type |-> "", result |-> "", exc |-> "not called",
     rows_updated |-> 0, before |-> <<>>, after |-> <<>>]

SlateIdle ==
    /\ vegas_lines = <<>>
    /\ pick_history = <<>>
    /\ utc_today = ""
    /\ slate = NoSlate
    /\ recorded = NoRecord

PipeIdle ==
    /\ game_ctx = NoContext
    /\ dim_funcs = <<>>
    /\ last = NoCall
    /\ prev = NoCall
    /\ matchup = NoMatchup

FunIdle ==
    /\ args = [op |-> "none"]
    /\ ret = NoRet

DispatchInit ==
    /\ FunIdle
    /\ game_ctx \in DispatchContexts
    /\ dim_funcs = <<>>
    /\ last = NoCall
    /\ prev = NoCall
    /\ matchup = NoMatchup
    /\ SlateIdle

\* pipeline._run_dimension(dim_name, ctx)
RunDimension ==
    \E dim_name \in DispatchNames :
        \E r \in {_run_dimension(dim_funcs, dim_name, game_ctx)} :
           /\ dim_funcs' = r.dim_funcs
           /\ game_ctx' = r.ctx
           /\ last' = [called |-> TRUE, dim_name |-> dim_name,
                       from_cache |-> dim_name \in DOMAIN dim_funcs,
                       ctx_before |-> game_ctx, ret |-> r]
           /\ prev' = last
           /\ UNCHANGED <<funVars, matchup, slateVars>>

DispatchNext == RunDimension

SpecDispatch == DispatchInit /\ [][DispatchNext]_vars

MatchupInit ==
    /\ FunIdle
    /\ game_ctx \in MatchupContexts
    /\ dim_funcs = <<>>
    /\ last = NoCall
    /\ prev = NoCall
    /\ matchup = NoMatchup
    /\ SlateIdle

\* pipeline.analyze_matchup(ctx)
AnalyzeMatchup ==
    /\ matchup.calls < MaxAnalyses
    /\ \E r \in {analyze_matchup(dim_funcs, game_ctx)} :
          /\ dim_funcs' = r.dim_funcs
          /\ matchup' = [calls |-> matchup.calls + 1, ret |-> r]
    /\ UNCHANGED <<funVars, game_ctx, last, prev, slateVars>>

MatchupNext == AnalyzeMatchup

SpecMatchup == MatchupInit /\ [][MatchupNext]_vars

-----------------------------------------------------------------------------
(* analyze_slate: every game of a date, sorted, persisted to pick_history. *)

\* Alphabetical order of the team names, as ORDER BY home_team compares them.
TeamOrder == <<"", "Auburn", "Baylor", "Creighton", "Dayton">>

TeamRank(name) == CHOOSE i \in 1..Len(TeamOrder) : TeamOrder[i] = name

\* A vegas_lines row.  `signals` stands for the rows of the other tables
\* about the two teams: what each dimension computes from them.
LineRow(game_date, season, away_team, home_team, line, signals) ==
    [game_date |-> game_date, season |-> season, away_team |-> away_team,
     home_team |-> home_team, line |-> line, signals |-> signals]

\* queries.get_all_lines_for_date
get_all_lines_for_date(lines, game_date) ==
    LET rows == SelectSeq(lines, LAMBDA r : r.game_date = game_date)
    IN SortedDesc([i \in 1..Len(rows) |->
                      [key |-> 0 - TeamRank(rows[i].home_team),
                       item |-> rows[i]]])

\* queries._get_matchup_line: the latest line of the matchup in the season.
_get_matchup_line(lines, away_team, home_team, season) ==
    SelectSeq(lines, LAMBDA r : /\ r.away_team = away_team
                                /\ r.home_team = home_team
                                /\ r.season = season)

\* pipeline.build_context; no game is listed on two dates, so the latest
\* line of a matchup is its only one.
build_context(lines, away_team, home_team, game_date, season) ==
    LET found == _safe_query_series(QueryReturns("DataFrame",
                     _get_matchup_line(lines, away_team, home_team, season)))
    IN IF found.rows = <<>>
       THEN Context(away_team, home_team, game_date, EmptyLine,
                    SourceWith({}, <<>>))
       ELSE Context(away_team, home_team, game_date, found.rows[1].line,
                    found.rows[1].signals)

LogEntry(event, away_team, home_team, pick_type) ==
    [event |-> event, away_team |-> away_team, home_team |-> home_team,
     pick_type |-> pick_type]

\* Mutant of GameOutcome: a failing game also discards the cards built
\* before it.
GameOutcomeAbort(acc, away, home, r) ==
    IF r.exc # "none"
    THEN [acc EXCEPT !.dim_funcs = r.dim_funcs,
                     !.cards = <<>>,
                     !.log = @ \o <<LogEntry("failed to analyze", away, home,
                                             "")>>]
    ELSE [acc EXCEPT !.dim_funcs = r.dim_funcs,
                     !.cards = @ \o <<r.card>>]

\* What the loop of analyze_slate does with the outcome r of
\* build_context and analyze_matchup for one row; `acc` is the card list,
\* the cache and the log so far.
GameOutcome(acc, away, home, r) ==
    IF r.exc # "none"
    THEN [acc EXCEPT !.dim_funcs = r.dim_funcs,
                     !.log = @ \o <<LogEntry("failed to analyze", away, home,
                                             "")>>]
    ELSE [acc EXCEPT !.dim_funcs = r.dim_funcs,
                     !.cards = @ \o <<r.card>>]

\* One iteration of the loop of analyze_slate.
AnalyzeGame(acc, lines, row, game_date, season) ==
    IF row.away_team = "" \/ row.home_team = ""
    THEN [acc EXCEPT !.log = @ \o <<LogEntry("missing team names",
                                             row.away_team, row.home_team,
                                             "")>>]
    ELSE GameOutcome(acc, row.away_team, row.home_team,
                     analyze_matchup(acc.dim_funcs,
                                     build_context(lines, row.away_team,
                                                   row.home_team, game_date,
                                                   season)))

\* The loop of analyze_slate over the rows of `games`, from row i on.
RECURSIVE AnalyzeGames(_, _, _, _, _, _)
AnalyzeGames(acc, lines, games, game_date, season, i) ==
    IF i > Len(games) THEN acc
    ELSE AnalyzeGames(AnalyzeGame(acc, lines, games[i], game_date, season),
                      lines, games, game_date, season, i + 1)

\* Mutant of SortCards: the cards stay in the order of the rows.
SortCardsKeep(cards) == cards

\* cards.sort(key=max(spread_composite, total_composite), reverse=True)
SortCards(cards) ==
    SortedDesc([i \in 1..Len(cards) |->
                   [key |-> Max2(cards[i].spread_composite,
                                 cards[i].total_composite),
                    item |-> cards[i]]])

\* The values bound to insert_sql; result is left to its default, NULL.
PickRow(analysis_date, season, card, pick_type) ==
    [analysis_date |-> analysis_date,
     game_date |-> card.game_date,
     season |-> season,
     away_team |-> card.away_team,
     home_team |-> card.home_team,
     pick_type |-> pick_type,
     pick_side |-> IF pick_type = "spread" THEN card.spread_pick
                   ELSE card.total_pick,
     confidence |-> IF pick_type = "spread" THEN card.spread_confidence
                    ELSE card.total_confidence,
     composite_score |-> IF pick_type = "spread" THEN card.spread_composite
                         ELSE card.total_composite,
     spread_at_pick |-> card.spread,
     total_at_pick |-> card.total,
     result |-> "NULL"]

\* UNIQUE(analysis_date, game_date, away_team, home_team, pick_type)
PickKey(row) ==
    <<row.analysis_date, row.game_date, row.away_team, row.home_team,
      row.pick_type>>

\* Mutant of InsertOrReplace: a plain INSERT that ignores the key.
InsertAppend(history, row) == history \o <<row>>

\* INSERT OR REPLACE: rows in conflict on the key are deleted, then the
\* new row is added.
InsertOrReplace(history, row) ==
    SelectSeq(history, LAMBDA r : PickKey(r) # PickKey(row)) \o <<row>>

\* How the connection misbehaves during one analyze_slate run: the games
\* query raises, the insert attempts numbered in `inserts` raise, the
\* commit raises.
Fault(name, query, inserts, commit) ==
    [name |-> name, query |-> query, inserts |-> inserts, commit |-> commit]

NoFault == Fault("none", FALSE, {}, FALSE)

\* One conn.execute(insert_sql, ...) of _save_picks inside its try/except;
\* `st` is the table, the rows written, the execute calls made and the log.
SavePick(st, analysis_date, season, card, pick_type, fault) ==
    IF (st.attempts + 1) \in fault.inserts
    THEN [st EXCEPT !.attempts = @ + 1,
                    !.log = @ \o <<LogEntry("failed to save", card.away_team,
                                            card.home_team, pick_type)>>]
    ELSE [st EXCEPT !.attempts = @ + 1,
                    !.rows_written = @ + 1,
                    !.history = InsertOrReplace(
                        @, PickRow(analysis_date, season, card, pick_type)),
                    !.log = @ \o <<LogEntry("insert", card.away_team,
                                            card.home_team, pick_type)>>]

\* Mutant of SaveCards: the tier is not looked at, both markets of every
\* card are written.
RECURSIVE SaveCardsAll(_, _, _, _, _, _)
SaveCardsAll(st, analysis_date, season, cards, fault, i) ==
    IF i > Len(cards) THEN st
    ELSE SaveCardsAll(
             SavePick(SavePick(st, analysis_date, season, cards[i], "spread",
                               fault),
                      analysis_date, season, cards[i], "total", fault),
             analysis_date, season, cards, fault, i + 1)

\* The loop of _save_picks over the cards, from card i on.
RECURSIVE SaveCards(_, _, _, _, _, _)
SaveCards(st, analysis_date, season, cards, fault, i) ==
    IF i > Len(cards) THEN st
    ELSE LET card == cards[i]
             s1 == IF card.spread_confidence # "SKIP"
                   THEN SavePick(st, analysis_date, season, card, "spread",
                                 fault)
                   ELSE st
             s2 == IF card.total_confidence # "SKIP"
                   THEN SavePick(s1, analysis_date, season, card, "total",
                                 fault)
                   ELSE s1
         IN SaveCards(s2, analysis_date, season, cards, fault, i + 1)

\* Mutant of _save_picks: a failing insert or commit rolls the run back.
SavePicksRollback(history, cards, season, analysis_date, fault) ==
    LET st == SaveCards([history |-> history, rows_written |-> 0,
                         attempts |-> 0, log |-> <<>>],
                        analysis_date, season, cards, fault, 1)
        failed == \E j \in 1..Len(st.log) : st.log[j].event = "failed to save"
    IN IF st.rows_written = 0 THEN st
       ELSE IF fault.commit
       THEN [st EXCEPT !.history = history,
                       !.log = @ \o <<LogEntry("failed to commit", "", "",
                                               "")>>]
       ELSE [st EXCEPT !.history = IF failed THEN history ELSE @,
                       !.log = @ \o <<LogEntry("commit", "", "", "")>>]

\* Mutant of _save_picks: the commit does not depend on rows_written.
SavePicksAlwaysCommit(history, cards, season, analysis_date, fault) ==
    LET st == SaveCards([history |-> history, rows_written |-> 0,
                         attempts |-> 0, log |-> <<>>],
                        analysis_date, season, cards, fault, 1)
    IN IF fault.commit
       THEN [st EXCEPT !.log = @ \o <<LogEntry("failed to commit", "", "",
                                               "")>>]
       ELSE [st EXCEPT !.log = @ \o <<LogEntry("commit", "", "", "")>>]

\* pipeline._save_picks
_save_picks(history, cards, season, analysis_date, fault) ==
    LET st == SaveCards([history |-> history, rows_written |-> 0,
                         attempts |-> 0, log |-> <<>>],
                        analysis_date, season, cards, fault, 1)
    IN IF st.rows_written = 0 THEN st
       ELSE IF fault.commit
       THEN [st EXCEPT !.log = @ \o <<LogEntry("failed to commit", "", "",
                                               "")>>]
       ELSE [st EXCEPT !.log = @ \o <<LogEntry("commit", "", "", "")>>]

\* pipeline.analyze_slate
analyze_slate(dim_funcs_in, lines, history, game_date, season, analysis_date, fault) ==
    LET games == _safe_query_df(
                     IF fault.query THEN QueryRaises
                     ELSE QueryReturns("DataFrame",
                              get_all_lines_for_date(lines, game_date))).rows
        loop == AnalyzeGames([cards |-> <<>>, dim_funcs |-> dim_funcs_in,
                              log |-> <<>>],
                             lines, games, game_date, season, 1)
        cards == SortCards(loop.cards)
        saved == _save_picks(history, cards, season, analysis_date, fault)
    IN IF games = <<>>
       THEN [exc |-> "none", cards |-> <<>>, dim_funcs |-> dim_funcs_in,
             pick_history |-> history,
             log |-> <<LogEntry("no games", "", "", "")>>]
       ELSE [exc |-> "none", cards |-> cards, dim_funcs |-> loop.dim_funcs,
             pick_history |-> saved.history,
             log |-> loop.log \o saved.log]

-----------------------------------------------------------------------------
(* One pipeline instance on one database: slates are analyzed while the    *)
(* clock advances.                                                         *)

MaxGames == 2       \* most vegas_lines rows of the slate date
MaxSlates == 2      \* most analyze_slate calls

\* Team names of the rows in rowid order; the home teams are in reverse
\* alphabetical order.
AwayTeams == <<"Duke", "Kansas", "Gonzaga">>

HomeTeams == <<"Creighton", "Baylor", "Auburn">>

SlateDate == "2025-02-14"

\* A date without rows in vegas_lines.
OpenDate == "2025-02-15"

Days == <<"2025-02-13", "2025-02-14">>

OneDim(name, shape) == SourceWith({name}, [n \in {name} |-> shape])

\* What a row can be: no data at all (both markets SKIP), LEAN on both
\* markets, LOCK and SKIP, a line whose spread is text, a missing away
\* team name, a raising dimension next to one with a STRONG total.
GameKinds ==
    {[away |-> TRUE, line |-> NumericLine, signals |-> SourceWith({}, <<>>)],
     [away |-> TRUE, line |-> NumericLine,
      signals |-> OneDim("pace_adjusted", Shape(25, -25, 8, TRUE))],
     [away |-> TRUE, line |-> EmptyLine,
      signals |-> OneDim("pace_adjusted", Shape(100, 0, 15, FALSE))],
     [away |-> TRUE, line |-> TextLine,
      signals |-> OneDim("pace_adjusted", Shape(25, -25, 8, TRUE))],
     [away |-> FALSE, line |-> NumericLine,
      signals |-> OneDim("pace_adjusted", Shape(25, -25, 8, TRUE))],
     [away |-> TRUE, line |-> NumericLine,
      signals |-> SourceWith({"pace_adjusted", "home_away"},
                             [n \in {"pace_adjusted", "home_away"} |->
                                 IF n = "pace_adjusted" THEN RaisesShape
                                 ELSE Shape(4, 150, 5, TRUE)])]}

SlateTables ==
    UNION {{[i \in 1..n |->
                LineRow(SlateDate, 2025,
                        IF kinds[i].away THEN AwayTeams[i] ELSE "",
                        HomeTeams[i], kinds[i].line, kinds[i].signals)] :
              kinds \in [1..n -> GameKinds]} : n \in 0..MaxGames}

Faults ==
    {NoFault,
     Fault("query", TRUE, {}, FALSE),
     Fault("commit", FALSE, {}, TRUE),
     Fault("every insert", FALSE, 1..(2 * MaxGames), FALSE)}
    \cup {Fault("one insert", FALSE, {k}, FALSE) : k \in 1..MaxGames}

\* The slate date is analyzed under every fault, the date without games
\* on a sound connection.
SlateCalls ==
    {[game_date |-> SlateDate, fault |-> f] : f \in Faults}
    \cup {[game_date |-> OpenDate, fault |-> NoFault]}

Init ==
    /\ FunIdle
    /\ PipeIdle
    /\ vegas_lines \in SlateTables
    /\ pick_history = <<>>
    /\ utc_today = Days[1]
    /\ slate = NoSlate
    /\ recorded = NoRecord

\* pipeline.analyze_slate(game_date, season), for the calls of `calls`
AnalyzeSlateOn(calls) ==
    /\ slate.calls < MaxSlates
    /\ \E call \in calls :
          \E r \in {analyze_slate(dim_funcs, vegas_lines, pick_history,
                                  call.game_date, 2025, utc_today,
                                  call.fault)} :
             /\ dim_funcs' = r.dim_funcs
             /\ pick_history' = r.pick_history
             /\ slate' = [calls |-> slate.calls + 1,
                          game_date |-> call.game_date,
                          analysis_date |-> utc_today,
                          fault |-> call.fault.name, exc |-> r.exc,
                          cards |-> r.cards, log |-> r.log]
    /\ UNCHANGED <<funVars, game_ctx, last, prev, matchup, vegas_lines,
                   utc_today, recorded>>

AnalyzeSlate == AnalyzeSlateOn(SlateCalls)

\* The UTC date changes between two runs.
AdvanceClock ==
    /\ \E i \in 1..(Len(Days) - 1) :
          /\ utc_today = Days[i]
          /\ utc_today' = Days[i + 1]
    /\ UNCHANGED <<funVars, pipeVars, vegas_lines, pick_history, slate,
                   recorded>>

Next ==
    \/ AnalyzeSlate
    \/ AdvanceClock

Spec == Init /\ [][Next]_vars

-----------------------------------------------------------------------------
(* analysis/backtest.py: record_result, on the pick_history of a database  *)
(* whose slate holds one game.                                             *)

MaxRecords == 2     \* most record_result calls

\* str.upper() and str.lower() on the strings record_result is called with.
upper(str) ==
    CASE str = "w" -> "W"
      [] str = "l" -> "L"
      [] str = "p" -> "P"
      [] str = "x" -> "X"
      [] OTHER -> str

lower(str) ==
    CASE str = "Spread" -> "spread"
      [] str = "SPREAD" -> "spread"
      [] str = "Total" -> "total"
      [] str = "TOTAL" -> "total"
      [] str = "Moneyline" -> "moneyline"
      [] OTHER -> str

\* WHERE game_date = ? AND away_team = ? AND home_team = ? AND
\* pick_type = ? AND result IS NULL
Unresolved(row, game_date, away_team, home_team, pick_type) ==
    /\ row.game_date = game_date
    /\ row.away_team = away_team
    /\ row.home_team = home_team
    /\ row.pick_type = pick_type
    /\ row.result = "NULL"

\* Mutant of record_result: the arguments are not validated.
RecordResultUnchecked(history, game_date, away_team, home_team, pick_type, result) ==
    LET hit == {j \in 1..Len(history) :
                   Unresolved(history[j], game_date, away_team, home_team,
                              lower(pick_type))}
    IN [exc |-> "none",
        history |-> [j \in 1..Len(history) |->
                        IF j \in hit
                        THEN [history[j] EXCEPT !.result = upper(result)]
                        ELSE history[j]],
        rows_updated |-> Cardinality(hit)]

\* Mutant of record_result: the UPDATE lacks "AND result IS NULL".
RecordResultOverwrite(history, game_date, away_team, home_team, pick_type, result) ==
    LET res == upper(result)
        ptype == lower(pick_type)
        hit == {j \in 1..Len(history) :
                   /\ history[j].game_date = game_date
                   /\ history[j].away_team = away_team
                   /\ history[j].home_team = home_team
                   /\ history[j].pick_type = ptype}
    IN IF res \notin {"W", "L", "P"} \/ ptype \notin {"spread", "total"}
       THEN [exc |-> "ValueError", history |-> history, rows_updated |-> 0]
       ELSE [exc |-> "none",
             history |-> [j \in 1..Len(history) |->
                             IF j \in hit
                             THEN [history[j] EXCEPT !.result = res]
                             ELSE history[j]],
             rows_updated |-> Cardinality(hit)]

\* backtest.record_result
record_result(history, game_date, away_team, home_team, pick_type, result) ==
    LET res == upper(result)
        ptype == lower(pick_type)
        hit == {j \in 1..Len(history) :
                   Unresolved(history[j], game_date, away_team, home_team,
                              ptype)}
    IN IF res \notin {"W", "L", "P"} \/ ptype \notin {"spread", "total"}
       THEN [exc |-> "ValueError", history |-> history, rows_updated |-> 0]
       ELSE [exc |-> "none",
             history |-> [j \in 1..Len(history) |->
                             IF j \in hit
                             THEN [history[j] EXCEPT !.result = res]
                             ELSE history[j]],
             rows_updated |-> Cardinality(hit)]

\* One named game with a usable line: no data, LEAN on both markets, LOCK
\* and SKIP, or a raising dimension next to a STRONG total.
HistoryTables ==
    {t \in SlateTables :
        /\ Len(t) = 1
        /\ t[1].away_team # ""
        /\ t[1].line.kind # "text"}

\* Outcomes in both cases, and one that is none of W, L, P.
RecordOutcomes == {"W", "l", "x"}

\* Pick types in both cases, and one that is neither spread nor total.
RecordPickTypes == {"spread", "TOTAL", "Moneyline"}

\* The game of the slate, and the same teams on a date without picks.
RecordDates == {SlateDate, OpenDate}

HistoryInit ==
    /\ FunIdle
    /\ PipeIdle
    /\ vegas_lines \in HistoryTables
    /\ pick_history = <<>>
    /\ utc_today = Days[1]
    /\ slate = NoSlate
    /\ recorded = NoRecord

\* analyze_slate for the slate date on a sound connection.
AnalyzeSound ==
    AnalyzeSlateOn({[game_date |-> SlateDate, fault |-> NoFault]})

\* backtest.record_result(conn, game_date, away_team, home_team, pick_type,
\* result)
RecordResultOn(dates, pick_types, outcomes) ==
    /\ recorded.calls < MaxRecords
    /\ \E game_date \in dates, pick_type \in pick_types,
          result \in outcomes :
          \E r \in {record_result(pick_history, game_date,
                                  vegas_lines[1].away_team,
                                  vegas_lines[1].home_team, pick_type,
                                  result)} :
             /\ pick_history' = r.history
             /\ recorded' = [calls |-> recorded.calls + 1,
                             game_date |-> game_date,
                             away_team |-> vegas_lines[1].away_team,
                             home_team |-> vegas_lines[1].home_team,
                             pick_type |-> pick_type, result |-> result,
                             exc |-> r.exc, rows_updated |-> r.rows_updated,
                             before |-> pick_history, after |-> r.history]
    /\ UNCHANGED <<funVars, pipeVars, vegas_lines, utc_today, slate>>

RecordResult == RecordResultOn(RecordDates, RecordPickTypes, RecordOutcomes)

HistoryNext ==
    \/ AnalyzeSound
    \/ AdvanceClock
    \/ RecordResult

SpecHistory == HistoryInit /\ [][HistoryNext]_vars

-----------------------------------------------------------------------------
(* analysis/backtest.py: run_backtest, on the pick_history analyze_slate   *)
(* and record_result have built.  run_backtest only reads the table, so    *)
(* the session is followed up to its first backtest.                       *)

\* The dates of the model in the order of their strings.
DateOrder == <<"2025-02-13", "2025-02-14", "2025-02-15">>

DateRank(date) == CHOOSE i \in 1..Len(DateOrder) : DateOrder[i] = date

\* An Optional argument: <<>> is None, <<v>> is the value v.
None == <<>>

Some(v) == <<v>>

\* Mutant of BacktestRow: rows without an outcome are read too.
BacktestRowAny(row, season, start_date, end_date) ==
    /\ season # None => row.season = season[1]
    /\ start_date # None => DateRank(row.game_date) >= DateRank(start_date[1])
    /\ end_date # None => DateRank(row.game_date) <= DateRank(end_date[1])

\* WHERE result IS NOT NULL [AND season = ?] [AND game_date >= ?]
\* [AND game_date <= ?]
BacktestRow(row, season, start_date, end_date) ==
    /\ row.result # "NULL"
    /\ season # None => row.season = season[1]
    /\ start_date # None => DateRank(row.game_date) >= DateRank(start_date[1])
    /\ end_date # None => DateRank(row.game_date) <= DateRank(end_date[1])

BacktestTiers == <<"LOCK", "STRONG", "LEAN", "SKIP">>

\* The record of one tier: its W, L and P counts.
TierRecord(tier_df) ==
    [W |-> Len(SelectSeq(tier_df, LAMBDA r : r.result = "W")),
     L |-> Len(SelectSeq(tier_df, LAMBDA r : r.result = "L")),
     P |-> Len(SelectSeq(tier_df, LAMBDA r : r.result = "P"))]

RECURSIVE SumOver(_, _)
SumOver(f, keys) ==
    IF keys = {} THEN 0
    ELSE LET k == CHOOSE x \in keys : TRUE
         IN f[k] + SumOver(f, keys \ {k})

\* BacktestResult(total_picks=0): every other field at its default.
EmptyBacktest ==
    [exc |-> "none", total_picks |-> 0, record |-> <<>>,
     roi_by_tier |-> <<>>, overall_roi |-> Frac(0, 1),
     accuracy_by_tier |-> <<>>, calibration_data |-> <<>>]

\* backtest.run_backtest; a dict is a function on its keys.
run_backtest(history, season, start_date, end_date) ==
    LET hits == SelectSeq(history, LAMBDA r :
                              BacktestRow(r, season, start_date, end_date))
        df == SortedDesc([i \in 1..Len(hits) |->
                             [key |-> 0 - DateRank(hits[i].game_date),
                              item |-> hits[i]]])
        TierDf(tier) ==
            SelectSeq(df, LAMBDA r :
                          _tier_from_composite(r.composite_score) = tier)
        tiers == {BacktestTiers[i] : i \in 1..Len(BacktestTiers)}
        present == {t \in tiers : TierDf(t) # <<>>}
        record == [t \in present |-> TierRecord(TierDf(t))]
        total_wins == SumOver([t \in present |-> record[t].W], present)
        total_losses == SumOver([t \in present |-> record[t].L], present)
        total_pushes == SumOver([t \in present |-> record[t].P], present)
    IN IF df = <<>> THEN EmptyBacktest
       ELSE [exc |-> "none",
             total_picks |-> Len(df),
             record |-> record,
             roi_by_tier |-> [t \in present |->
                                 _compute_roi(record[t].W, record[t].L,
                                              record[t].P)],
             overall_roi |-> _compute_roi(total_wins, total_losses,
                                          total_pushes),
             accuracy_by_tier |-> [t \in present |->
                                      _compute_accuracy(record[t].W,
                                                        record[t].L)],
             calibration_data |-> _build_calibration(df)]

\* No filter, the season and the date of the slate, another season, a
\* start after the slate, an end before it.
BacktestFilters ==
    {[season |-> None, start_date |-> None, end_date |-> None],
     [season |-> Some(2025), start_date |-> Some(SlateDate),
      end_date |-> Some(SlateDate)],
     [season |-> Some(2024), start_date |-> None, end_date |-> None],
     [season |-> None, start_date |-> Some(OpenDate), end_date |-> None],
     [season |-> None, start_date |-> None, end_date |-> Some(Days[1])]}

\* Valid outcomes for the picks of the slate.
RecordValid == RecordResultOn({SlateDate}, {"spread", "total"}, {"W", "L", "P"})

\* backtest.run_backtest(conn, season=, start_date=, end_date=)
RunBacktest ==
    /\ ret = NoRet
    /\ \E f \in BacktestFilters :
          /\ args' = [op |-> "run_backtest", season |-> f.season,
                      start_date |-> f.start_date, end_date |-> f.end_date]
          /\ ret' = run_backtest(pick_history, f.season, f.start_date,
                                 f.end_date)
    /\ UNCHANGED <<pipeVars, slateVars>>

BacktestNext ==
    \/ ret = NoRet /\ AnalyzeSound
    \/ ret = NoRet /\ AdvanceClock
    \/ ret = NoRet /\ RecordValid
    \/ RunBacktest

SpecBacktest == HistoryInit /\ [][BacktestNext]_vars

-----------------------------------------------------------------------------
(* The pure functions, each applied once to arguments drawn by FunInit.    *)

FunInit ==
    /\ args \in CompositeArgs \cup TierArgs \cup KellyArgs \cup RoiArgs
                 \cup CalibrationArgs \cup ContextArgs
    /\ ret = NoRet
    /\ PipeIdle
    /\ SlateIdle

ComputeSpreadComposite ==
    /\ args.op = "compute_spread_composite"
    /\ ret = NoRet
    /\ ret' = compute_spread_composite(args.results, args.weights)
    /\ UNCHANGED <<args, pipeVars, slateVars>>

ComputeTotalComposite ==
    /\ args.op = "compute_total_composite"
    /\ ret = NoRet
    /\ ret' = compute_total_composite(args.results, args.weights)
    /\ UNCHANGED <<args, pipeVars, slateVars>>

AssignTier ==
    /\ args.op = "assign_tier"
    /\ ret = NoRet
    /\ ret' = Return(assign_tier(args.composite))
    /\ UNCHANGED <<args, pipeVars, slateVars>>

TierFromComposite ==
    /\ args.op = "_tier_from_composite"
    /\ ret = NoRet
    /\ ret' = Return(_tier_from_composite(args.composite))
    /\ UNCHANGED <<args, pipeVars, slateVars>>

ComputeKellyFraction ==
    /\ args.op = "compute_kelly_fraction"
    /\ ret = NoRet
    /\ ret' = compute_kelly_fraction(args.composite, args.implied_prob)
    /\ UNCHANGED <<args, pipeVars, slateVars>>

ComputeRoi ==
    /\ args.op = "_compute_roi"
    /\ ret = NoRet
    /\ ret' = Return(_compute_roi(args.wins, args.losses, args.pushes))
    /\ UNCHANGED <<args, pipeVars, slateVars>>

BuildCalibration ==
    /\ args.op = "_build_calibration"
    /\ ret = NoRet
    /\ ret' = Return(_build_calibration(args.df))
    /\ UNCHANGED <<args, pipeVars, slateVars>>

\* The data fields of pipeline.build_context
BuildContext ==
    /\ args.op = "build_context"
    /\ ret = NoRet
    /\ ret' = ContextFields(args.queries)
    /\ UNCHANGED <<args, pipeVars, slateVars>>

FunNext ==
    \/ ComputeSpreadComposite
    \/ ComputeTotalComposite
    \/ AssignTier
    \/ TierFromComposite
    \/ ComputeKellyFraction
    \/ ComputeRoi
    \/ BuildCalibration
    \/ BuildContext

SpecFunctions == FunInit /\ [][FunNext]_vars

Called(op) == args.op = op /\ ret # NoRet

-----------------------------------------------------------------------------
(* Claims on the pure functions (under SpecFunctions).                     *)

\* C1: compute_spread_composite and compute_total_composite return a value
\* in [0.0, 10.0] for every result list, weight mapping and edge sign or
\* magnitude, and never raise a division by zero.
C1_CompositeInRange ==
    (Called("compute_spread_composite") \/ Called("compute_total_composite"))
        => /\ ret.exc = "none"
           /\ 0 <= ret.value
           /\ ret.value <= 10000

\* A call whose matched weights sum to zero over a non-empty list, one
\* whose raw score exceeds the ceiling, and one with a negative weighted sum.
C1_Witness ==
    /\ Called("compute_spread_composite")
    /\ Len(args.results) = MaxResults
    /\ TotalWeight(args.results, args.weights, 1) = 0
    /\ \E i \in 1..Len(args.results) :
           WeightGet(args.weights, args.results[i].name) # 0

\* C2: assign_tier is a step function with inclusive lower bounds (>= 7.0
\* LOCK, >= 4.5 STRONG, >= 2.0 LEAN, below 2.0 SKIP), hence monotonic: a
\* larger composite never gets a lower tier.
C2_TierStepMonotonic ==
    Called("assign_tier") =>
        LET c == args.composite
            t == ret.value
        IN /\ (t = "LOCK") <=> (c >= 7000)
           /\ (t = "STRONG") <=> (4500 <= c /\ c < 7000)
           /\ (t = "LEAN") <=> (2000 <= c /\ c < 4500)
           /\ (t = "SKIP") <=> (c < 2000)
           /\ \A b \in TierComposites :
                  c <= b => TierRank(t) <= TierRank(assign_tier(b))

\* assign_tier has been applied to a composite of exactly 7.0.
C2_Witness ==
    /\ Called("assign_tier")
    /\ args.composite = 7000
    /\ ret.value = "LOCK"

\* C3: compute_kelly_fraction returns a value in [0.0, 0.25]; exactly 0.0
\* when implied_prob >= 1.0 or the estimated probability does not exceed
\* implied_prob, in particular at composite 5.0 with implied_prob 0.5.
C3_KellyInRange ==
    Called("compute_kelly_fraction") =>
        /\ ret.exc = "none"
        /\ 0 <= ret.value
        /\ ret.value <= 2500
        /\ (args.implied_prob >= 10000
              \/ EstimatedProb(args.composite) <= args.implied_prob)
               => ret.value = 0
        /\ (args.composite = 5000 /\ args.implied_prob = 5000)
               => ret.value = 0

\* A call whose raw Kelly fraction (0.905) exceeds the cap.
C3_Witness ==
    /\ Called("compute_kelly_fraction")
    /\ args.composite = 10000
    /\ args.implied_prob = 5000
    /\ ret.value = 2500

\* C10: the backtest ROI is (100*W - 110*L) / (110*(W+L)) when W+L > 0 and
\* 0.0 when W+L = 0; the push count never changes it; it lies in
\* [-1.0, 100/110].
C10_RoiFormula ==
    Called("_compute_roi") =>
        LET W == args.wins
            L == args.losses
            roi == ret.value
        IN /\ roi.den > 0
           /\ (W + L > 0) =>
                  roi.num * (110 * (W + L)) = (100 * W - 110 * L) * roi.den
           /\ (W + L = 0) => roi.num = 0
           /\ \A P \in 0..MaxCount : FracEq(_compute_roi(W, L, P), roi)
           /\ -roi.den <= roi.num
           /\ 110 * roi.num <= 100 * roi.den
           /\ (W > 0 /\ L = 0) => 1100 * roi.num = 1000 * roi.den
           /\ (W = 0 /\ L > 0) => roi.num = -roi.den

\* The ROI of wins only, with pushes among the picks: the upper bound.
C10_Witness ==
    /\ Called("_compute_roi")
    /\ args.wins = MaxCount
    /\ args.losses = 0
    /\ args.pushes > 0
    /\ 110 * ret.value.num = 100 * ret.value.den

RECURSIVE SumCounts(_, _)
SumCounts(table, i) ==
    IF i > Len(table) THEN 0 ELSE table[i].count + SumCounts(table, i + 1)

\* C11: for resolved picks whose composite scores all lie in [0, 10], the
\* calibration table has no row with count 0, every decided (W or L) pick
\* is counted in exactly one band, and the counts add up to the number of
\* decided picks; pushes are counted nowhere.
C11_CalibrationPartition ==
    (Called("_build_calibration")
       /\ \A i \in 1..Len(args.df) :
              /\ 0 <= args.df[i].composite_score
              /\ args.df[i].composite_score <= 10000) =>
        LET table == ret.value
            decided == {i \in 1..Len(args.df) :
                           args.df[i].result \in {"W", "L"}}
            Band(k) == {i \in decided :
                           /\ bin_edges[k] <= args.df[i].composite_score
                           /\ args.df[i].composite_score < bin_edges[k + 1]}
        IN /\ \A j \in 1..Len(table) : table[j].count > 0
           /\ \A j1, j2 \in 1..Len(table) :
                  table[j1].bin = table[j2].bin => j1 = j2
           /\ \A i \in decided :
                  Cardinality({k \in 1..Len(bin_labels) : i \in Band(k)}) = 1
           /\ \A k \in 1..Len(bin_labels) :
                  IF Band(k) = {}
                  THEN \A j \in 1..Len(table) : table[j].bin # bin_labels[k]
                  ELSE \E j \in 1..Len(table) :
                          /\ table[j].bin = bin_labels[k]
                          /\ table[j].count = Cardinality(Band(k))
           /\ SumCounts(table, 1) = Cardinality(decided)

\* A win at 10.0, a push: one row, the top band, count 1.
C11_Witness ==
    /\ Called("_build_calibration")
    /\ Len(args.df) = 2
    /\ args.df[1] = [composite_score |-> 10000, result |-> "W"]
    /\ args.df[2].result = "P"
    /\ args.df[2].composite_score = 2000
    /\ Len(ret.value) = 1
    /\ ret.value[1].bin = "8.5-10"
    /\ ret.value[1].count = 1

\* C24: _tier_from_composite and assign_tier give every composite the same
\* label: the same bounds 7.0, 4.5 and 2.0, each of them inclusive.
C24_BacktestTierIsAssignTier ==
    /\ Called("_tier_from_composite") =>
          ret = Return(assign_tier(args.composite))
    /\ Called("assign_tier") =>
          ret = Return(_tier_from_composite(args.composite))

\* The backtest puts a stored composite of exactly 2.0 in LEAN.
C24_Witness ==
    /\ Called("_tier_from_composite")
    /\ args.composite = LEAN_MIN
    /\ ret.value = "LEAN"
    /\ assign_tier(args.composite) = "LEAN"

\* A query that raises, returns nothing or returns an empty result.
ComesUpEmpty(outcome) ==
    \/ outcome.kind \in {"raises", "None"}
    \/ outcome.rows = <<>>

\* C17: build_context never raises; a field whose query raises, returns
\* None or returns an empty result is an empty Series or DataFrame, never
\* None, and every other field holds what its own query returned.
C17_ContextFieldsNeverAbsent ==
    Called("build_context") =>
        /\ ret.exc = "none"
        /\ \A f \in SeriesFields \cup FrameFields :
              /\ ret.value[f].type
                     = (IF f \in SeriesFields THEN "Series" ELSE "DataFrame")
              /\ ComesUpEmpty(args.queries[f]) => ret.value[f].rows = <<>>
              /\ args.queries[f] = QueryReturns("DataFrame",
                                                <<"row 1", "row 2">>) =>
                    ret.value[f].rows
                        = (IF f \in SeriesFields THEN <<"row 1">>
                           ELSE <<"row 1", "row 2">>)

\* The ratings query of the away team raises and the line query returns
\* None: both fields are empty, the home ratings are there.
C17_Witness ==
    /\ Called("build_context")
    /\ args.queries["away_ratings"] = QueryRaises
    /\ args.queries["line"].kind = "None"
    /\ ret.value["away_ratings"] = Series(<<>>)
    /\ ret.value["line"] = Series(<<>>)
    /\ ret.value["home_ratings"] = Series(<<"row 1">>)
    /\ ret.value["away_game_logs"] = DataFrame(<<"row 1", "row 2">>)

-----------------------------------------------------------------------------
(* Claims on the dispatcher (SpecDispatch) and on analyze_matchup          *)
(* (SpecMatchup).                                                          *)

\* What the signal source of dimension n computes on the context.
SourceOf(c, n) == c.source[n]

IsNeutral(result, dim_name) ==
    /\ result.name = dim_name
    /\ result.spread_edge = 0
    /\ result.total_edge = 0
    /\ result.confidence = 0

\* C4: when a signal source raises, the dispatcher returns a result named
\* after the requested dimension with zero edges and zero confidence; the
\* exception does not reach analyze_matchup, which still evaluates every
\* other dimension of the game.
C4_SourceFailureIsNeutral ==
    matchup.calls > 0 =>
        LET results == matchup.ret.card.dimension_results
        IN /\ matchup.ret.exc # "Exception"
           /\ game_ctx.line.kind # "text" =>
                /\ matchup.ret.exc = "none"
                /\ Len(results) = Len(DimensionOrder)
                /\ \A i \in 1..Len(DimensionOrder) :
                       LET n == DimensionOrder[i]
                           out == SourceOf(game_ctx, n)
                       IN /\ results[i].name = n
                          /\ out.raises => IsNeutral(results[i], n)
                          /\ ~out.raises =>
                                /\ results[i].spread_edge
                                       = out.result.spread_edge
                                /\ results[i].total_edge
                                       = out.result.total_edge
                                /\ results[i].narrative
                                       = out.result.narrative

\* The first dimension raised and the last one still contributed its edge.
C4_Witness ==
    /\ matchup.calls > 0
    /\ matchup.ret.exc = "none"
    /\ SourceOf(game_ctx, "pace_adjusted").raises
    /\ IsNeutral(matchup.ret.card.dimension_results[1], "pace_adjusted")
    /\ matchup.ret.card.dimension_results[12].name = "trap_detect"
    /\ matchup.ret.card.dimension_results[12].spread_edge # 0

\* C5: every result the dispatcher returns has a confidence in [0, 1]:
\* below 0 becomes 0.0, above 1 becomes 1.0, inside is unchanged.
C5_ConfidenceClamped ==
    last.called =>
        /\ 0 <= last.ret.result.confidence
        /\ last.ret.result.confidence <= 10
        /\ (last.dim_name \in DOMAIN _DIMENSION_REGISTRY
              /\ ~SourceOf(last.ctx_before, last.dim_name).raises) =>
               LET c == SourceOf(last.ctx_before,
                                 last.dim_name).result.confidence
               IN /\ c < 0 => last.ret.result.confidence = 0
                  /\ c > 10 => last.ret.result.confidence = 10
                  /\ (0 <= c /\ c <= 10) => last.ret.result.confidence = c

\* The source reported a confidence of 1.5 and the dispatcher returned 1.0.
C5_Witness ==
    /\ last.called
    /\ last.dim_name = "trap_detect"
    /\ ~SourceOf(last.ctx_before, "trap_detect").raises
    /\ SourceOf(last.ctx_before, "trap_detect").result.confidence = 15
    /\ last.ret.result.confidence = 10

\* C6: dispatching a name that is not in the registry surfaces an error to
\* the caller; it is not turned into a neutral result.
C6_UnknownNameIsFatal ==
    (last.called /\ last.dim_name \notin DOMAIN _DIMENSION_REGISTRY) =>
        last.ret.exc # "none"

\* C7: two dispatcher calls in a row with the same dimension name on the
\* same context return identical results, the second from the cache the
\* first filled; neither call changes the context.
C7_DispatcherIdempotent ==
    /\ last.called => last.ret.ctx = last.ctx_before
    /\ (last.called /\ prev.called /\ last.dim_name = prev.dim_name) =>
          /\ last.ctx_before = prev.ctx_before
          /\ last.ret.exc = prev.ret.exc
          /\ last.ret.result = prev.ret.result
          /\ last.dim_name \in DOMAIN _DIMENSION_REGISTRY =>
                /\ last.from_cache
                /\ last.ret.dim_funcs = prev.ret.dim_funcs

\* The first call imported the callable, the second took it from the cache,
\* and the source returned a result both times.
C7_Witness ==
    /\ last.called
    /\ prev.called
    /\ last.dim_name = "trap_detect"
    /\ prev.dim_name = "trap_detect"
    /\ ~prev.from_cache
    /\ last.from_cache
    /\ last.ret.logged = "none"
    /\ last.ret.result.confidence = 5

\* C8: in every card analyze_matchup produces, a market whose tier is SKIP
\* has the empty string as its chosen side.
C8_SkipHasEmptySide ==
    (matchup.calls > 0 /\ matchup.ret.exc = "none") =>
        /\ matchup.ret.card.spread_confidence = "SKIP"
               => matchup.ret.card.spread_pick = ""
        /\ matchup.ret.card.total_confidence = "SKIP"
               => matchup.ret.card.total_pick = ""

\* The sum of edge * confidence over the results of the card, and the same
\* sum with every term multiplied by the weight of its dimension.
SignedSum(edge_attr) ==
    _aggregate_direction(matchup.ret.card.dimension_results, edge_attr)

WeightedSignedSum(edge_attr) ==
    WeightedSum(matchup.ret.card.dimension_results, DIMENSION_WEIGHTS,
                edge_attr, 1)

\* C20: the side of a market follows the sign of S, the sum of
\* edge * confidence over all dimension results, and nothing else: S >= 0
\* (the tie S = 0 included) gives the away team and OVER, S < 0 the home
\* team and UNDER, whatever the size of S and the weights.
C20_SideFollowsSignOfSum ==
    (matchup.calls > 0 /\ matchup.ret.exc = "none") =>
        /\ matchup.ret.card.spread_pick
              = (IF SignedSum("spread_edge") >= 0 THEN game_ctx.away_team
                 ELSE game_ctx.home_team)
        /\ matchup.ret.card.total_pick
              = (IF SignedSum("total_edge") >= 0 THEN "OVER" ELSE "UNDER")

\* Total edges that cancel to S = 0 next to a spread sum whose sign the
\* weights would reverse: OVER, and the home team.
C20_Witness ==
    /\ matchup.calls > 0
    /\ matchup.ret.exc = "none"
    /\ SignedSum("total_edge") = 0
    /\ \E i \in 1..Len(matchup.ret.card.dimension_results) :
          matchup.ret.card.dimension_results[i].total_edge # 0
    /\ matchup.ret.card.total_pick = "OVER"
    /\ SignedSum("spread_edge") < 0
    /\ WeightedSignedSum("spread_edge") > 0
    /\ matchup.ret.card.spread_pick = game_ctx.home_team

\* |spread_edge| * confidence of the i-th result of the card, and its
\* rank: one more than the number of results that go before it, those with
\* a higher product and those evaluated earlier with the same product.
FactorKey(i) ==
    Abs(matchup.ret.card.dimension_results[i].spread_edge)
        * matchup.ret.card.dimension_results[i].confidence

FactorKeys ==
    [i \in 1..Len(matchup.ret.card.dimension_results) |-> FactorKey(i)]

FactorRanks ==
    LET key == FactorKeys
    IN [i \in DOMAIN key |->
           1 + Cardinality({j \in DOMAIN key :
                               \/ key[j] > key[i]
                               \/ key[j] = key[i] /\ j < i})]

Selected == {i \in DOMAIN FactorRanks : FactorRanks[i] <= 3}

WithoutNeutral ==
    SelectSeq(matchup.ret.card.dimension_results,
              LAMBDA r : ~IsNeutral(r, r.name))

\* C21: the composites of a card are those of its results with the
\* neutral results (zero edges, zero confidence) left out.
C21_NeutralResultsDoNotDeflate ==
    (matchup.calls > 0 /\ matchup.ret.exc = "none") =>
        /\ Return(matchup.ret.card.spread_composite)
              = compute_spread_composite(WithoutNeutral, DIMENSION_WEIGHTS)
        /\ Return(matchup.ret.card.total_composite)
              = compute_total_composite(WithoutNeutral, DIMENSION_WEIGHTS)

\* C29: in a market whose tier is not SKIP the side agrees with the sign
\* of the sum of edge * confidence * weight, the sum whose size is the
\* composite: the away team or OVER exactly when that sum is >= 0.
C29_SideAgreesWithWeightedSum ==
    (matchup.calls > 0 /\ matchup.ret.exc = "none") =>
        /\ matchup.ret.card.spread_confidence # "SKIP" =>
              (matchup.ret.card.spread_pick = game_ctx.away_team
                  <=> WeightedSignedSum("spread_edge") >= 0)
        /\ matchup.ret.card.total_confidence # "SKIP" =>
              (matchup.ret.card.total_pick = "OVER"
                  <=> WeightedSignedSum("total_edge") >= 0)

-----------------------------------------------------------------------------
(* Claims on analyze_slate (under Spec).                                   *)

\* C9: in every card analyze_slate returns, a market's chosen side is the
\* empty string if and only if that market's tier is SKIP.
C9_EmptySideIffSkip ==
    slate.calls > 0 =>
        \A i \in 1..Len(slate.cards) :
            /\ slate.cards[i].spread_pick = ""
                   <=> slate.cards[i].spread_confidence = "SKIP"
            /\ slate.cards[i].total_pick = ""
                   <=> slate.cards[i].total_confidence = "SKIP"

\* The rows analyze_slate read from vegas_lines in the latest call.
SlateRows ==
    IF slate.fault = "query" THEN <<>>
    ELSE get_all_lines_for_date(vegas_lines, slate.game_date)

\* What analyzing the game of a row alone gives.
RowAnalysis(row) ==
    analyze_matchup(<<>>, build_context(vegas_lines, row.away_team,
                                        row.home_team, slate.game_date, 2025))

Named(row) == row.away_team # "" /\ row.home_team # ""

CardsOf(row) ==
    {i \in 1..Len(slate.cards) :
        /\ slate.cards[i].away_team = row.away_team
        /\ slate.cards[i].home_team = row.home_team}

\* C12: analyze_slate never raises, and a game whose context building or
\* analysis raises is the only one it costs: every other row with both
\* team names is analyzed and its card returned.
C12_FailureDropsOnlyThatGame ==
    slate.calls > 0 =>
        /\ slate.exc = "none"
        /\ \A k \in 1..Len(SlateRows) :
              LET row == SlateRows[k]
              IN Named(row) =>
                    IF RowAnalysis(row).exc # "none"
                    THEN CardsOf(row) = {}
                    ELSE /\ Cardinality(CardsOf(row)) = 1
                         /\ \A i \in CardsOf(row) :
                               slate.cards[i] = RowAnalysis(row).card

\* The second game read fails on its text line after the first was
\* analyzed; the card of the first is returned.
C12_Witness ==
    /\ slate.calls > 0
    /\ Len(SlateRows) = 2
    /\ Named(SlateRows[1])
    /\ RowAnalysis(SlateRows[1]).exc = "none"
    /\ SlateRows[2].line.kind = "text"
    /\ RowAnalysis(SlateRows[2]).exc = "ValueError"
    /\ Len(slate.cards) = 1
    /\ slate.cards[1].home_team = SlateRows[1].home_team
    /\ \E j \in 1..Len(slate.log) : slate.log[j].event = "failed to analyze"

PickTypes == {"spread", "total"}

TierOf(card, pick_type) ==
    IF pick_type = "spread" THEN card.spread_confidence
    ELSE card.total_confidence

\* The rows of the table with the key the latest run gives a card's market.
RowsOf(card, pick_type) ==
    {j \in 1..Len(pick_history) :
        PickKey(pick_history[j])
            = <<slate.analysis_date, card.game_date, card.away_team,
                card.home_team, pick_type>>}

\* The log entries of the latest run about a card's market.
Logged(event, card, pick_type) ==
    {j \in 1..Len(slate.log) :
        slate.log[j] = LogEntry(event, card.away_team, card.home_team,
                                pick_type)}

InsertsFail == slate.fault \in {"one insert", "every insert"}

\* C13: _save_picks writes exactly one pick_history row for each market of
\* each card whose tier is not SKIP and none for a SKIP market, so between
\* 0 and 2 rows per card (every insert succeeding; when an insert raises,
\* that row alone is missing).
C13_OneRowPerNonSkipMarket ==
    slate.calls > 0 =>
        \A i \in 1..Len(slate.cards) :
            LET card == slate.cards[i]
                Written(t) == Cardinality(Logged("insert", card, t))
                Failed(t) == Cardinality(Logged("failed to save", card, t))
            IN /\ \A t \in PickTypes :
                     /\ TierOf(card, t) = "SKIP" =>
                           /\ Written(t) = 0
                           /\ Failed(t) = 0
                           /\ RowsOf(card, t) = {}
                     /\ TierOf(card, t) # "SKIP" =>
                           /\ Written(t) + Failed(t) = 1
                           /\ ~InsertsFail => Written(t) = 1
                           /\ Written(t) = 1 =>
                                 /\ Cardinality(RowsOf(card, t)) = 1
                                 /\ \A j \in RowsOf(card, t) :
                                       pick_history[j]
                                           = PickRow(slate.analysis_date,
                                                     2025, card, t)
               /\ Written("spread") + Written("total") \in 0..2

\* A card with a LOCK spread and a SKIP total: one row, for the spread.
C13_Witness ==
    /\ slate.calls > 0
    /\ ~InsertsFail
    /\ \E i \in 1..Len(slate.cards) :
          /\ slate.cards[i].spread_confidence = "LOCK"
          /\ slate.cards[i].total_confidence = "SKIP"
          /\ Cardinality(RowsOf(slate.cards[i], "spread")) = 1
          /\ RowsOf(slate.cards[i], "total") = {}
          /\ \A j \in RowsOf(slate.cards[i], "spread") :
                pick_history[j].pick_side = slate.cards[i].away_team

\* C14: pick_history never holds two rows with the same key (analysis
\* date, game date, away team, home team, pick type); a run for a key that
\* is already there replaces the row.
C14_OneRowPerKey ==
    \A j1, j2 \in 1..Len(pick_history) :
        PickKey(pick_history[j1]) = PickKey(pick_history[j2]) => j1 = j2

\* Two runs on the same day: the second wrote the spread row again and
\* failed on the total row, so the replaced spread row now comes last.
C14_Witness ==
    /\ slate.calls = 2
    /\ slate.fault = "one insert"
    /\ Len(pick_history) = 2
    /\ pick_history[1].pick_type = "total"
    /\ pick_history[2].pick_type = "spread"
    /\ pick_history[1].home_team = pick_history[2].home_team
    /\ pick_history[1].analysis_date = pick_history[2].analysis_date

HigherComposite(card) == Max2(card.spread_composite, card.total_composite)

\* C22: the cards analyze_slate returns are in non-increasing order of
\* max(spread_composite, total_composite); there is at most one card for
\* each game row and none for a row with a missing team name.
C22_CardsSortedByHigherComposite ==
    slate.calls > 0 =>
        /\ \A i \in 1..(Len(slate.cards) - 1) :
              HigherComposite(slate.cards[i])
                  >= HigherComposite(slate.cards[i + 1])
        /\ Len(slate.cards) <= Len(SlateRows)
        /\ \A k \in 1..Len(SlateRows) :
              /\ Cardinality(CardsOf(SlateRows[k])) <= 1
              /\ ~Named(SlateRows[k]) => CardsOf(SlateRows[k]) = {}
        /\ \A i \in 1..Len(slate.cards) :
              \E k \in 1..Len(SlateRows) : i \in CardsOf(SlateRows[k])

\* The game read second has the higher composite and comes first.
C22_Witness ==
    /\ slate.calls > 0
    /\ Len(SlateRows) = 2
    /\ Len(slate.cards) = 2
    /\ slate.cards[1].home_team = SlateRows[2].home_team
    /\ slate.cards[2].home_team = SlateRows[1].home_team
    /\ HigherComposite(slate.cards[1]) > HigherComposite(slate.cards[2])

PersistenceFails == slate.fault \in {"commit", "one insert", "every insert"}

\* The log entries of the latest run about the commit.
CommitsLogged ==
    {j \in 1..Len(slate.log) :
        slate.log[j].event \in {"commit", "failed to commit"}}

\* C18: when an insert into pick_history or the commit fails, analyze_slate
\* returns the cards it returns when persistence succeeds, in the same
\* order; no insert and no commit is attempted twice, and the rows the run
\* inserted stay in the table.
C18_PersistenceFailureKeepsCards ==
    (slate.calls > 0 /\ PersistenceFails) =>
        /\ slate.exc = "none"
        /\ slate.cards
              = analyze_slate(<<>>, vegas_lines, <<>>, slate.game_date, 2025,
                              slate.analysis_date, NoFault).cards
        /\ Cardinality(CommitsLogged) <= 1
        /\ \A i \in 1..Len(slate.cards) : \A t \in PickTypes :
              LET card == slate.cards[i]
              IN /\ Cardinality(Logged("insert", card, t))
                        + Cardinality(Logged("failed to save", card, t)) <= 1
                 /\ Logged("insert", card, t) # {} =>
                        \E j \in RowsOf(card, t) :
                            pick_history[j]
                                = PickRow(slate.analysis_date, 2025, card, t)

\* The first insert of the run fails and a later one succeeds: the cards
\* are returned and the later row is in the table.
C18_Witness ==
    /\ slate.calls > 0
    /\ slate.fault = "one insert"
    /\ Len(slate.cards) > 0
    /\ \E j \in 1..Len(slate.log) : slate.log[j].event = "failed to save"
    /\ \E i \in 1..Len(slate.cards) : \E t \in PickTypes :
          /\ Logged("insert", slate.cards[i], t) # {}
          /\ RowsOf(slate.cards[i], t) # {}

\* The log entries of the latest run about insert attempts.
InsertsLogged ==
    {j \in 1..Len(slate.log) :
        slate.log[j].event \in {"insert", "failed to save"}}

\* C23: one analyze_slate run commits at most once, after the insert
\* attempts for the picks of every game, and only when a row was written.
C23_OneCommitAfterAllInserts ==
    slate.calls > 0 =>
        /\ Cardinality(CommitsLogged) <= 1
        /\ \A c \in CommitsLogged :
              /\ \A j \in InsertsLogged : j < c
              /\ \E j \in InsertsLogged : slate.log[j].event = "insert"
              /\ c = Len(slate.log)

\* Two games with picks: the inserts of both come before the one commit.
C23_Witness ==
    /\ slate.calls > 0
    /\ Len(slate.cards) = 2
    /\ \A i \in 1..2 : \E t \in PickTypes :
          Logged("insert", slate.cards[i], t) # {}
    /\ Cardinality(CommitsLogged) = 1
    /\ slate.log[Len(slate.log)].event = "commit"

\* What the caller of analyze_slate gets: the exception or the list.
Returned(r) == [exc |-> r.exc, cards |-> r.cards]

\* The date of the latest run has games and the analysis of each failed.
EveryGameFailed ==
    /\ slate.calls > 0
    /\ SlateRows # <<>>
    /\ \A k \in 1..Len(SlateRows) :
          /\ Named(SlateRows[k])
          /\ RowAnalysis(SlateRows[k]).exc # "none"

\* C19: what analyze_slate returns for a date on which games exist but
\* every game failed to analyze differs from what it returns for a date
\* with zero games.
C19_NoGamesIsDistinguishable ==
    EveryGameFailed =>
        Returned(slate)
            # Returned(analyze_slate(dim_funcs, vegas_lines, pick_history,
                                     OpenDate, 2025, utc_today, NoFault))

-----------------------------------------------------------------------------
(* Claims on record_result (under SpecHistory).                            *)

\* The spellings of W, L, P and of spread, total that differ in case only.
OutcomeSpellings == {"W", "w", "L", "l", "P", "p"}

PickTypeSpellings ==
    {"spread", "Spread", "SPREAD", "total", "Total", "TOTAL"}

\* C15: record_result with an outcome that is none of W, L, P or a pick
\* type that is neither spread nor total, case ignored, raises ValueError
\* and changes no pick_history row.
C15_InvalidArgumentsRejected ==
    recorded.calls > 0 =>
        IF recorded.result \in OutcomeSpellings
              /\ recorded.pick_type \in PickTypeSpellings
        THEN recorded.exc = "none"
        ELSE /\ recorded.exc = "ValueError"
             /\ recorded.rows_updated = 0
             /\ recorded.after = recorded.before

\* An outcome "x" for a pick that is in the table and unresolved.
C15_Witness ==
    /\ recorded.calls > 0
    /\ recorded.result = "x"
    /\ recorded.pick_type = "spread"
    /\ recorded.exc = "ValueError"
    /\ \E j \in 1..Len(recorded.before) :
          Unresolved(recorded.before[j], recorded.game_date,
                     recorded.away_team, recorded.home_team, "spread")
    /\ recorded.after = recorded.before

\* C16: one valid record_result call sets the outcome of exactly one
\* unresolved pick_history row or of none, never of more than one.
C16_AtMostOneRowUpdated ==
    (recorded.calls > 0 /\ recorded.exc = "none") =>
        /\ recorded.rows_updated \in {0, 1}
        /\ Cardinality({j \in 1..Len(recorded.before) :
                           recorded.after[j] # recorded.before[j]}) <= 1

\* The row is the pick the latest record_result call names, resolved or not.
NamedByCall(row) ==
    /\ row.game_date = recorded.game_date
    /\ row.away_team = recorded.away_team
    /\ row.home_team = recorded.home_team
    /\ row.pick_type = lower(recorded.pick_type)

\* C25: a valid record_result call does not raise and changes only rows
\* it names whose outcome is unset; when no such row exists every row is
\* as before, so an outcome already recorded is never overwritten.
C25_RecordedOutcomeNotOverwritten ==
    (/\ recorded.calls > 0
     /\ recorded.result \in OutcomeSpellings
     /\ recorded.pick_type \in PickTypeSpellings) =>
        /\ recorded.exc = "none"
        /\ Len(recorded.after) = Len(recorded.before)
        /\ \A j \in 1..Len(recorded.before) :
              (~NamedByCall(recorded.before[j])
                  \/ recorded.before[j].result # "NULL")
                 => recorded.after[j] = recorded.before[j]
        /\ (\A j \in 1..Len(recorded.before) :
                ~(NamedByCall(recorded.before[j])
                    /\ recorded.before[j].result = "NULL"))
              => /\ recorded.after = recorded.before
                 /\ recorded.rows_updated = 0

\* A loss recorded for a pick whose win was recorded before: it stays W.
C25_Witness ==
    /\ recorded.calls = 2
    /\ recorded.result = "l"
    /\ recorded.exc = "none"
    /\ recorded.rows_updated = 0
    /\ \E j \in 1..Len(recorded.before) :
          /\ NamedByCall(recorded.before[j])
          /\ recorded.before[j].result = "W"
          /\ recorded.after[j].result = "W"

\* C27: an outcome record_result has set stays: after any step the table
\* still holds, for every row with an outcome, a row with the same key
\* and the same outcome.
C27_RecordedOutcomeStays ==
    [][\A j \in 1..Len(pick_history) :
          pick_history[j].result # "NULL" =>
              \E k \in 1..Len(pick_history') :
                  /\ PickKey(pick_history'[k]) = PickKey(pick_history[j])
                  /\ pick_history'[k].result = pick_history[j].result]_vars

-----------------------------------------------------------------------------
(* Claims on run_backtest (under SpecBacktest).                            *)

\* C28: every pick_history row _save_picks wrote has a composite_score of
\* at least 2.0 and a stored tier label equal to the tier the backtest
\* derives from that score, so the record of a backtest has no SKIP group.
C28_StoredTierIsBacktestTier ==
    /\ \A j \in 1..Len(pick_history) :
          /\ pick_history[j].composite_score >= LEAN_MIN
          /\ pick_history[j].confidence
                = _tier_from_composite(pick_history[j].composite_score)
    /\ Called("run_backtest") => "SKIP" \notin DOMAIN ret.record

\* A backtest over the resolved LEAN picks of a game: its record has the
\* LEAN group alone.
C28_Witness ==
    /\ Called("run_backtest")
    /\ ret.total_picks = 2
    /\ DOMAIN ret.record = {"LEAN"}
    /\ \E j \in 1..Len(pick_history) :
          /\ pick_history[j].confidence = "LEAN"
          /\ pick_history[j].result # "NULL"

\* The rows of the table inside the filters of the latest backtest.
InFilters ==
    {j \in 1..Len(pick_history) :
        /\ args.season # None => pick_history[j].season = args.season[1]
        /\ args.start_date # None =>
              DateRank(pick_history[j].game_date)
                  >= DateRank(args.start_date[1])
        /\ args.end_date # None =>
              DateRank(pick_history[j].game_date)
                  <= DateRank(args.end_date[1])}

Resolved == {j \in InFilters : pick_history[j].result # "NULL"}

RecordTotal(tier) ==
    ret.record[tier].W + ret.record[tier].L + ret.record[tier].P

\* C30: run_backtest counts exactly the rows inside its filters whose
\* outcome is set; W + L + P summed over the tiers of the record is
\* total_picks; roi_by_tier and accuracy_by_tier have the tiers of the
\* record as keys, and the record has the tiers with a pick and no other.
C30_BacktestCountsResolvedRows ==
    Called("run_backtest") =>
        /\ ret.exc = "none"
        /\ ret.total_picks = Cardinality(Resolved)
        /\ SumOver([t \in DOMAIN ret.record |-> RecordTotal(t)],
                   DOMAIN ret.record) = ret.total_picks
        /\ DOMAIN ret.roi_by_tier = DOMAIN ret.record
        /\ DOMAIN ret.accuracy_by_tier = DOMAIN ret.record
        /\ DOMAIN ret.record
              = {_tier_from_composite(pick_history[j].composite_score) :
                    j \in Resolved}
        /\ \A t \in DOMAIN ret.record : RecordTotal(t) > 0

\* A backtest of season 2025 over a table with two resolved rows or more,
\* a win and a push among them, and a row still without outcome.
C30_Witness ==
    /\ Called("run_backtest")
    /\ args.season = Some(2025)
    /\ ret.total_picks >= 2
    /\ InFilters \ Resolved # {}
    /\ DOMAIN ret.record = {"LEAN"}
    /\ ret.record["LEAN"].W >= 1
    /\ ret.record["LEAN"].P >= 1

=============================================================================
